---- MODULE Spec2Model ----
(***************************************************************************)
(* AI Voice Assistant: the recording page (Home: startRecording,           *)
(* stopRecording, handleSubmit and the two buttons) and the relay          *)
(* endpoint POST /api/process-voice, with the MediaRecorder, the           *)
(* temporary directory, the clock and the processing backend as their      *)
(* environment.                                                            *)
(*                                                                         *)
(* React state is modelled as rendered: a click handler sees the state of  *)
(* the latest setState, and a handler's synchronous section is one step.   *)
(* Every await is a step boundary, except that `await response.json()`     *)
(* (page) and `await backendResponse.json()` (relay) are taken together    *)
(* with the fetch that precedes them: nothing is read or written between   *)
(* the two.                                                                *)
(***************************************************************************)
EXTENDS Integers, Sequences, FiniteSets, TLC

\* ---------------------------------------------------------------- bounds
MaxRec == 2      \* startRecording invocations per page session
MaxReq == 2      \* invocations of the relay endpoint running at one time
MaxClock == 1    \* ticks of the millisecond clock read by Date.now()

Rec == 1..MaxRec
Req == 1..MaxReq
Clock == 0..MaxClock

\* ------------------------------------------------------- javascript values
Undefined == "undefined"
Null == "null"
Text == "Your current plan includes 10GB of data."
Url == "https://backend/reply.mp3"
MicDeniedMsg == "Microphone access denied. Please allow microphone access."
SubmitFailedMsg == "Failed to process your request. Please try again."
NoAudioMsg == "No audio file provided"
RelayFailedMsg == "Failed to process audio"

EmptyObj == [f \in {} |-> Undefined]

\* obj.name: undefined when the object has no such property
Get(obj, name) == IF name \in DOMAIN obj THEN obj[name] ELSE Undefined

\* JSON.stringify followed by JSON.parse: properties whose value is undefined
\* are dropped, null and strings are kept
JsonRoundTrip(obj) ==
  LET kept == {f \in DOMAIN obj : obj[f] # Undefined}
  IN  [f \in kept |-> obj[f]]

\* javascript truthiness of the values above
Truthy(v) == v \notin {Undefined, Null, ""}

\* a Blob: the recorder whose onstop built it, and the chunks it was built of
NoBlob == [by |-> 0, chunks |-> <<>>]
NewBlob(k, chunks) == [by |-> k, chunks |-> chunks]
ExtBlob == [by |-> MaxRec + 1, chunks |-> <<MaxRec + 1>>]

VARIABLES
  isRecording,       \* useState(false)
  audioBlob,         \* useState<Blob | null>(null)
  response,          \* useState<string>("")
  isLoading,         \* useState(false)
  error,             \* useState<string | null>(null)
  mediaRecorderRef,  \* useRef<MediaRecorder | null>(null): 0 is null
  audioChunksRef,    \* useRef<Blob[]>([])
  recorders,         \* per startRecording invocation: its getUserMedia request,
                     \* its MediaRecorder and its stream
  inflight,          \* the relay invocations that handleSubmit calls await
  stopCalls,         \* the number of stopRecording calls so far, modulo 2
  lastSubmit,        \* how the latest handleSubmit call went
  fetches,           \* requests the latest handleSubmit call sent to the relay
  plays,             \* audio.play() calls of the latest handleSubmit call
  relay,             \* per invocation of POST: its position and locals
  files,             \* os.tmpdir(): path -> content
  now                \* Date.now()

clientVars == <<isRecording, audioBlob, response, isLoading, error,
                mediaRecorderRef, audioChunksRef, recorders, inflight,
                stopCalls, lastSubmit, fetches, plays>>
relayVars == <<relay, files, now>>
vars == <<isRecording, audioBlob, response, isLoading, error,
          mediaRecorderRef, audioChunksRef, recorders, inflight,
          stopCalls, lastSubmit, fetches, plays, relay, files, now>>

\* ------------------------------------------------------------ relay: POST
NoReq == [kind |-> "none", audio |-> NoBlob]
NoPath == -1
NoData == [nodata |-> Null]
NoForm == [f \in {} |-> NoBlob]
FreeSlot == [pc |-> "free", req |-> NoReq, path |-> NoPath, wrote |-> FALSE,
             sent |-> NoForm, backendCalls |-> 0, failed |-> FALSE,
             data |-> NoData, status |-> 0, body |-> EmptyObj]

\* `recording-${Date.now()}.wav` in os.tmpdir(): the path is a function of the clock
TempFilePath(t) == t

\* what an HTTP client can send to the endpoint
ExternalRequests ==
  { [kind |-> "malformed", audio |-> NoBlob],   \* body is not form data
    [kind |-> "noAudio", audio |-> NoBlob],     \* form data without `audio`
    [kind |-> "audioText", audio |-> NoBlob],   \* `audio` is a text field
    [kind |-> "audio", audio |-> ExtBlob] }     \* `audio` is a file

\* (a changed audio check: the early return is never taken)
HasAudioPart_Unchecked(req) == TRUE

\* formData.get("audio"): null when the part is missing
HasAudioPart(req) == req.kind \in {"audio", "audioText"}

\* the catch block: console.error, then { error } with status 500
Caught(rr) ==
  [rr EXCEPT !.pc = "done", !.status = 500, !.body = [error |-> RelayFailedMsg]]

\* an exception inside the try block; `failed` records that the invocation failed
Thrown(rr) == Caught([rr EXCEPT !.failed = TRUE])

\* the early return of the missing-audio check
Rejected(rr) ==
  [rr EXCEPT !.pc = "done", !.failed = TRUE, !.status = 400,
             !.body = [error |-> NoAudioMsg]]

\* (a changed mapping: it reads a field the backend does not send)
SuccessBody_WrongField(data) ==
  JsonRoundTrip([response |-> Get(data, "response"),
                 audioUrl |-> Get(data, "audio_url")])

\* the object handed to NextResponse.json on success, as the client parses it
SuccessBody(data) ==
  JsonRoundTrip([response |-> Get(data, "text_response"),
                 audioUrl |-> Get(data, "audio_url")])

\* what the backend can answer to one request
BackendBodies ==
  { [text_response |-> Text, audio_url |-> Url],
    [text_response |-> Text, audio_url |-> Null],
    [text_response |-> Text],
    [text_response |-> "", audio_url |-> Null],
    EmptyObj }
BackendOutcomes ==
  { [net |-> "failed", status |-> 0, parse |-> "none", data |-> NoData],
    [net |-> "ok", status |-> 500, parse |-> "none", data |-> NoData],
    [net |-> "ok", status |-> 200, parse |-> "throws", data |-> NoData],
    [net |-> "ok", status |-> 200, parse |-> "null", data |-> NoData] }
  \cup { [net |-> "ok", status |-> 200, parse |-> "object", data |-> d] :
           d \in BackendBodies }

\* a request arrives: the handler runs up to `await request.formData()`
Accept(r, req) ==
  /\ relay[r].pc = "free"
  /\ \A q \in Req : q < r => relay[q].pc # "free"   \* slots are handed out in order
  /\ relay' = [relay EXCEPT ![r] = [@ EXCEPT !.pc = "formData", !.req = req]]

ExternalRequest(r) ==
  /\ \E req \in ExternalRequests : Accept(r, req)
  /\ UNCHANGED <<files, now>>
  /\ UNCHANGED clientVars

\* formData resolves or rejects; the audio check; tempFilePath; up to
\* `await audioFile.arrayBuffer()`
RelayParsed(rr, t) ==
  IF rr.req.kind = "malformed" THEN Thrown(rr)
  ELSE IF ~HasAudioPart(rr.req) THEN Rejected(rr)
  ELSE IF rr.req.kind = "audioText"
         \* a string has no arrayBuffer method: TypeError
         THEN Thrown([rr EXCEPT !.path = TempFilePath(t)])
  ELSE [rr EXCEPT !.pc = "buffer", !.path = TempFilePath(t)]

RelayParse(r) ==
  /\ relay[r].pc = "formData"
  /\ relay' = [relay EXCEPT ![r] = RelayParsed(@, now)]
  /\ UNCHANGED <<files, now>>
  /\ UNCHANGED clientVars

\* (a changed payload: the part is appended under another name)
FormData2_Renamed(buffer) == [file |-> buffer]

\* formData2: one part, `audio`, holding the bytes of the buffer
FormData2(buffer) == [audio |-> buffer]

\* arrayBuffer resolves; writeFileSync; formData2; up to `await fetch(backend)`
RelayWrite(r) ==
  /\ relay[r].pc = "buffer"
  /\ \/ /\ files' = [files EXCEPT ![relay[r].path] = relay[r].req.audio]
        /\ relay' = [relay EXCEPT ![r] = [@ EXCEPT !.pc = "fetch", !.wrote = TRUE,
                                                   !.sent = FormData2(relay[r].req.audio),
                                                   !.backendCalls = @ + 1]]
     \/ \* writeFileSync throws
        /\ relay' = [relay EXCEPT ![r] = Thrown(@)]
        /\ UNCHANGED files
  /\ UNCHANGED now
  /\ UNCHANGED clientVars

\* fs.unlinkSync in its own try/catch: a missing file is logged, not thrown
Unlink(fs, p) == [fs EXCEPT ![p] = NoBlob]

\* (a changed failure path: the status is not checked and the reply is mapped)
BackendFailed_Unchecked(rr) ==
  [rr EXCEPT !.pc = "done", !.failed = TRUE, !.status = 200,
             !.body = SuccessBody(EmptyObj)]

\* (a changed failure path: the backend is asked once more before giving up)
BackendFailed_Retry(rr) ==
  IF rr.backendCalls < 2
    THEN [rr EXCEPT !.backendCalls = @ + 1]
    ELSE Thrown(rr)

\* the backend call failed: fetch rejected, or the status is not ok
BackendFailed(rr) == Thrown(rr)

\* the backend answered ok and its body is in `responseData`
BackendSucceeded(rr, out) ==
  IF out.parse = "throws" THEN Thrown(rr)
  ELSE IF out.parse = "null"
         \* responseData.text_response on null: TypeError, after the unlink
         THEN Thrown(rr)
  ELSE [rr EXCEPT !.pc = "done", !.status = 200, !.data = out.data,
                  !.body = SuccessBody(out.data)]

\* whether the handler reaches the unlink
ReachesUnlink(out) ==
  out.net = "ok" /\ out.status = 200 /\ out.parse # "throws"

RelayBackendReply(r) ==
  /\ relay[r].pc = "fetch"
  /\ \E out \in BackendOutcomes :
       /\ relay' = [relay EXCEPT ![r] =
                      IF out.net = "failed" \/ out.status # 200
                        THEN BackendFailed(@)
                        ELSE BackendSucceeded(@, out)]
       /\ files' = IF ReachesUnlink(out) THEN Unlink(files, relay[r].path)
                   ELSE files
  /\ UNCHANGED now
  /\ UNCHANGED clientVars

\* the response of an invocation no page awaits is sent: its locals are gone
RelayReturn(r) ==
  /\ relay[r].pc = "done"
  /\ r \notin inflight
  /\ relay' = [relay EXCEPT ![r] = FreeSlot]
  /\ UNCHANGED <<files, now>>
  /\ UNCHANGED clientVars

Tick ==
  /\ now < MaxClock
  /\ now' = now + 1
  /\ UNCHANGED <<relay, files>>
  /\ UNCHANGED clientVars

\* ------------------------------------------------------------- page: Home
NoRecorder == [state |-> "none", live |-> FALSE]

\* a click on the microphone button while isRecording is false:
\* startRecording runs up to `await getUserMedia`
StartRecording ==
  /\ \E k \in Rec :
       /\ recorders[k].state = "none"
       /\ \A j \in Rec : j < k => recorders[j].state # "none"
       /\ recorders' = [recorders EXCEPT ![k] = [@ EXCEPT !.state = "pending"]]
  /\ UNCHANGED <<isRecording, audioBlob, response, isLoading, error,
                 mediaRecorderRef, audioChunksRef, inflight, stopCalls,
                 lastSubmit, fetches, plays>>

ClickMicStart ==
  /\ ~isRecording
  /\ StartRecording
  /\ UNCHANGED relayVars

\* getUserMedia resolves: the rest of the try block
MicGranted(k) ==
  /\ recorders[k].state = "pending"
  /\ recorders' = [recorders EXCEPT ![k] = [state |-> "recording", live |-> TRUE]]
  /\ mediaRecorderRef' = k
  /\ audioChunksRef' = <<>>
  /\ isRecording' = TRUE
  /\ UNCHANGED <<audioBlob, response, isLoading, error, inflight, stopCalls,
                 lastSubmit, fetches, plays>>
  /\ UNCHANGED relayVars

\* (a changed catch block: it also drops the capture)
MicDenied_ResetsCapture(k) ==
  /\ recorders[k].state = "pending"
  /\ recorders' = [recorders EXCEPT ![k] = [@ EXCEPT !.state = "denied"]]
  /\ error' = MicDeniedMsg
  /\ audioBlob' = NoBlob
  /\ UNCHANGED <<isRecording, response, isLoading, mediaRecorderRef,
                 audioChunksRef, inflight, stopCalls, lastSubmit, fetches,
                 plays>>
  /\ UNCHANGED relayVars

\* getUserMedia rejects: the catch block
MicDenied(k) ==
  /\ recorders[k].state = "pending"
  /\ recorders' = [recorders EXCEPT ![k] = [@ EXCEPT !.state = "denied"]]
  /\ error' = MicDeniedMsg
  /\ UNCHANGED <<isRecording, audioBlob, response, isLoading, mediaRecorderRef,
                 audioChunksRef, inflight, stopCalls, lastSubmit, fetches,
                 plays>>
  /\ UNCHANGED relayVars

\* MediaRecorder.stop() and stream.getTracks().forEach(track => track.stop()).
\* stop() throws on a recorder that is not recording; whenever isRecording is
\* true the recorder in mediaRecorderRef is recording, so that never happens.
StoppedRecorder(rec) == [state |-> "stopping", live |-> FALSE]

\* (a changed guard: isRecording is not looked at)
StopRecording_Unguarded ==
  /\ mediaRecorderRef # 0
  /\ recorders' = [recorders EXCEPT ![mediaRecorderRef] = StoppedRecorder(@)]
  /\ isRecording' = FALSE
  /\ stopCalls' = 1 - stopCalls
  /\ UNCHANGED <<audioBlob, response, isLoading, error, mediaRecorderRef,
                 audioChunksRef, inflight, lastSubmit, fetches,
                 plays>>

StopRecording ==
  IF mediaRecorderRef # 0 /\ isRecording
    THEN /\ recorders[mediaRecorderRef].state = "recording"
         /\ recorders' = [recorders EXCEPT ![mediaRecorderRef] = StoppedRecorder(@)]
         /\ isRecording' = FALSE
         /\ stopCalls' = 1 - stopCalls
         /\ UNCHANGED <<audioBlob, response, isLoading, error, mediaRecorderRef,
                        audioChunksRef, inflight, lastSubmit, fetches,
                        plays>>
    ELSE /\ stopCalls' = 1 - stopCalls
         /\ UNCHANGED <<isRecording, audioBlob, response, isLoading, error,
                        mediaRecorderRef, audioChunksRef, recorders, inflight,
                        lastSubmit, fetches,
                        plays>>

\* a click on the microphone button while isRecording is true
ClickMicStop ==
  /\ isRecording
  /\ StopRecording
  /\ UNCHANGED relayVars

\* the stopped recorder delivers its data: ondataavailable
DataAvailable(k) ==
  /\ recorders[k].state = "stopping"
  /\ audioChunksRef' = Append(audioChunksRef, k)
  /\ recorders' = [recorders EXCEPT ![k] = [@ EXCEPT !.state = "flushed"]]
  /\ UNCHANGED <<isRecording, audioBlob, response, isLoading, error,
                 mediaRecorderRef, inflight, stopCalls, lastSubmit, fetches,
                 plays>>
  /\ UNCHANGED relayVars

\* then its stop event: onstop
OnStop(k) ==
  /\ recorders[k].state = "flushed"
  /\ audioBlob' = NewBlob(k, audioChunksRef)
  /\ recorders' = [recorders EXCEPT ![k] = [@ EXCEPT !.state = "inactive"]]
  /\ UNCHANGED <<isRecording, response, isLoading, error, mediaRecorderRef,
                 audioChunksRef, inflight, stopCalls, lastSubmit, fetches,
                 plays>>
  /\ UNCHANGED relayVars

\* (a changed guard: handleSubmit sends whatever audioBlob holds)
HasCapture_Unchecked(blob) == TRUE

\* whether handleSubmit has a capture to send
HasCapture(blob) == blob # NoBlob

\* handleSubmit up to `await fetch("/api/process-voice")`
HandleSubmit ==
  IF ~HasCapture(audioBlob)
    THEN /\ lastSubmit' = "noCapture"
         /\ fetches' = 0
         /\ plays' = 0
         /\ UNCHANGED <<isRecording, audioBlob, response, isLoading, error,
                        mediaRecorderRef, audioChunksRef, recorders, inflight,
                        stopCalls>>
         /\ UNCHANGED relayVars
    ELSE /\ \E r \in Req :
              /\ Accept(r, [kind |-> "audio", audio |-> audioBlob])
              /\ inflight' = inflight \cup {r}
         /\ isLoading' = TRUE
         /\ error' = Null
         /\ lastSubmit' = "sent"
         /\ fetches' = 1
         /\ plays' = 0
         /\ UNCHANGED <<isRecording, audioBlob, response, mediaRecorderRef,
                        audioChunksRef, recorders, stopCalls>>
         /\ UNCHANGED <<files, now>>

\* (a changed rendering condition: the button stays while recording)
SubmitOffered_WhileRecording == audioBlob # NoBlob

\* the submit button is rendered when audioBlob && !isRecording
SubmitOffered == audioBlob # NoBlob /\ ~isRecording

\* (a changed button: it is not disabled while loading)
SubmitEnabled_NotDisabled == SubmitOffered

\* and disabled while loading
SubmitEnabled == SubmitOffered /\ ~isLoading

ClickSubmit ==
  /\ SubmitEnabled
  /\ HandleSubmit

\* the catch and finally blocks of the handleSubmit call awaiting r
SubmitFailed(r) ==
  /\ error' = SubmitFailedMsg
  /\ isLoading' = FALSE
  /\ inflight' = inflight \ {r}
  /\ lastSubmit' = "failed"
  /\ UNCHANGED <<isRecording, audioBlob, response, mediaRecorderRef,
                 audioChunksRef, recorders, stopCalls, fetches, plays>>

\* (a changed playback: the audio is played whether or not there is a url)
Playback_Always(data) == 1

\* `if (data.audioUrl) { new Audio(data.audioUrl).play() }`: the calls of play()
Playback(data) == IF Truthy(Get(data, "audioUrl")) THEN 1 ELSE 0

\* the relay answered ok: setResponse, the playback, then the finally block
SubmitSucceeded(r, data) ==
  /\ response' = Get(data, "response")
  /\ plays' = plays + Playback(data)
  /\ isLoading' = FALSE
  /\ inflight' = inflight \ {r}
  /\ lastSubmit' = "ok"
  /\ UNCHANGED <<isRecording, audioBlob, error, mediaRecorderRef,
                 audioChunksRef, recorders, stopCalls, fetches>>

\* the response panel is rendered when `response` is truthy
ResponseShown == Truthy(response)

\* the relay's response reaches the page
SubmitResponse(r) ==
  /\ r \in inflight
  /\ relay[r].pc = "done"
  /\ IF relay[r].status # 200
       THEN SubmitFailed(r)
       ELSE SubmitSucceeded(r, relay[r].body)
  /\ relay' = [relay EXCEPT ![r] = FreeSlot]
  /\ UNCHANGED <<files, now>>

\* the fetch to the relay rejects: the connection is lost before the endpoint
\* has read the request (its formData() rejects and its 500 goes nowhere), or
\* when the endpoint has answered (the answer is lost). An invocation whose
\* caller is gone in between runs on as in SpecRelay.
SubmitTransportError(r) ==
  /\ r \in inflight
  /\ relay[r].pc \in {"formData", "done"}
  /\ SubmitFailed(r)
  /\ relay' = [relay EXCEPT ![r] = FreeSlot]
  /\ UNCHANGED <<files, now>>

\* ------------------------------------------------------------ specification
Init ==
  /\ isRecording = FALSE
  /\ audioBlob = NoBlob
  /\ response = ""
  /\ isLoading = FALSE
  /\ error = Null
  /\ mediaRecorderRef = 0
  /\ audioChunksRef = <<>>
  /\ recorders = [k \in Rec |-> NoRecorder]
  /\ inflight = {}
  /\ stopCalls = 0
  /\ lastSubmit = "none"
  /\ fetches = 0
  /\ plays = 0
  /\ relay = [r \in Req |-> FreeSlot]
  /\ files = [p \in Clock |-> NoBlob]
  /\ now = 0

\* the page of one visitor
PageNext ==
  \/ ClickMicStart
  \/ \E k \in Rec : MicGranted(k)
  \/ \E k \in Rec : MicDenied(k)
  \/ ClickMicStop
  \/ \E k \in Rec : DataAvailable(k)
  \/ \E k \in Rec : OnStop(k)
  \/ ClickSubmit
  \/ \E r \in Req : SubmitResponse(r)
  \/ \E r \in Req : SubmitTransportError(r)

\* the endpoint serving the requests it was sent
RelayNext ==
  \/ \E r \in Req : RelayParse(r)
  \/ \E r \in Req : RelayWrite(r)
  \/ \E r \in Req : RelayBackendReply(r)

\* the application: one page and the endpoint behind it
Next == PageNext \/ RelayNext

Spec == Init /\ [][Next]_vars

\* the handlers called directly, whatever the page renders (handleSubmit when
\* no submission is loading)
HandleSubmitCall == ~isLoading /\ HandleSubmit
StopRecordingCall == StopRecording /\ UNCHANGED relayVars

NextCalls == Next \/ HandleSubmitCall \/ StopRecordingCall

SpecCalls == Init /\ [][NextCalls]_vars

\* the endpoint alone, under the requests of any HTTP client, as the clock runs
NextRelay ==
  \/ \E r \in Req : ExternalRequest(r)
  \/ RelayNext
  \/ \E r \in Req : RelayReturn(r)
  \/ Tick

SpecRelay == Init /\ [][NextRelay]_vars

\* ------------------------------------------------------------------ claims
Done(r) == relay[r].pc = "done"
ErrorShape(body) == DOMAIN body = {"error"} /\ Truthy(body.error)
LiveStreams == {k \in Rec : recorders[k].live}

\* C1 (as claimed): when an invocation of POST that wrote its temporary file
\* returns, whatever the outcome, that file is gone
C1_TempFileRemoved ==
  \A r \in Req : (Done(r) /\ relay[r].wrote) => files[relay[r].path] = NoBlob

\* C2 (as claimed): no recording is active while a submission is in flight
C2_CaptureSubmitExclusive == ~(isRecording /\ isLoading)

\* C3 (as claimed): an invocation that was sent an audio file and answers with a
\* success status answers with a non-empty response text
C3_NeverEmptySuccess ==
  \A r \in Req :
    (Done(r) /\ relay[r].req.kind = "audio" /\ relay[r].status = 200)
      => Truthy(Get(relay[r].body, "response"))

\* C3 (amended): an invocation that was sent an audio file answers either with
\* { error } and a non-success status, or with a success status and a response
\* text that is non-empty exactly when the backend's text_response is
C3_EmptyOnlyFromBackend ==
  \A r \in Req :
    (Done(r) /\ relay[r].req.kind = "audio")
      => \/ /\ relay[r].status = 200
            /\ Truthy(Get(relay[r].body, "response"))
                 <=> Truthy(Get(relay[r].data, "text_response"))
         \/ /\ relay[r].status = 500
            /\ ErrorShape(relay[r].body)

C3_Witness ==
  \E r \in Req :
    /\ Done(r) /\ relay[r].req.kind = "audio" /\ relay[r].status = 200
    /\ Truthy(Get(relay[r].body, "response"))

\* C4 (as claimed): handleSubmit never sends a capture once a later
\* startRecording has been invoked
C4_NoStaleSubmit ==
  [][(inflight' \ inflight # {})
       => \A j \in Rec : j > audioBlob.by => recorders[j].state = "none"]_vars

\* a handleSubmit call that found no capture, and one that sent a request
NoCaptureCall == lastSubmit # "noCapture" /\ lastSubmit' = "noCapture"
SentCall == inflight' \ inflight # {}

\* C5 (as claimed): handleSubmit without a capture shows a validation message
\* and sends nothing
C5_MissingPayloadMessage ==
  [][NoCaptureCall => (error' # Null /\ UNCHANGED <<relay, inflight>>)]_vars

\* C5 (amended): handleSubmit without a capture returns at once: it sends
\* nothing, shows no message and changes nothing the page renders; and a
\* request is only ever sent with a capture
C5_NoCaptureNoOp ==
  [][/\ NoCaptureCall =>
          /\ audioBlob = NoBlob
          /\ UNCHANGED <<relay, inflight, files, error, isLoading, response,
                         isRecording, audioBlob>>
     /\ SentCall => /\ audioBlob # NoBlob
                    /\ \A r \in inflight' \ inflight :
                         relay'[r].req.audio # NoBlob]_vars

C5_Witness ==
  lastSubmit = "noCapture" /\ audioBlob = NoBlob /\ error = Null /\ inflight = {}

\* C6: a request without an audio part is answered 400 with { error }, and its
\* invocation neither calls the backend nor writes a temporary file
C6_NoAudioRejected ==
  \A r \in Req :
    (relay[r].req.kind = "noAudio" /\ relay[r].pc # "formData")
      => /\ Done(r)
         /\ relay[r].status = 400
         /\ ErrorShape(relay[r].body)
         /\ relay[r].backendCalls = 0
         /\ ~relay[r].wrote
         /\ relay[r].path = NoPath

C6_Witness == \E r \in Req : Done(r) /\ relay[r].req.kind = "noAudio"

\* C7 (as claimed): a submission leaves the loading state either with the
\* relay's text as response and no error, or with the failure message as error
C7_SubmitOutcome ==
  [][(isLoading /\ ~isLoading')
       => \/ /\ lastSubmit' = "ok"
             /\ \A r \in inflight \ inflight' :
                  response' = Get(relay[r].body, "response")
             /\ error' = Null
          \/ /\ lastSubmit' = "failed"
             /\ error' = SubmitFailedMsg]_vars

\* C8: every invocation ends with a response, and a failed one with { error }
\* and a non-success status, never with a response field
C8_FailuresUniform ==
  \A r \in Req :
    /\ Done(r) => relay[r].status \in {200, 400, 500}
    /\ (Done(r) /\ relay[r].failed)
         => /\ relay[r].status \in {400, 500}
            /\ ErrorShape(relay[r].body)
            /\ "response" \notin DOMAIN relay[r].body
    /\ relay[r].failed => Done(r)

C8_Witness ==
  \E r \in Req : Done(r) /\ relay[r].failed /\ relay[r].backendCalls = 1

\* C9: an invocation of POST calls the backend at most once and a handleSubmit
\* call sends at most one request, also when the attempt fails
C9_NoRetries ==
  /\ \A r \in Req : relay[r].backendCalls <= 1
  /\ fetches <= 1

C9_Witness ==
  \E r \in Req :
    /\ Done(r) /\ relay[r].failed /\ relay[r].backendCalls = 1
    /\ r \in inflight /\ fetches = 1

\* C10 (as claimed): at most one microphone stream is live at any time, and
\* none is once recording has stopped and no start is pending
C10_OneRecording ==
  /\ Cardinality(LiveStreams) <= 1
  /\ (~isRecording /\ \A k \in Rec : recorders[k].state # "pending")
       => LiveStreams = {}

\* a handleSubmit call ends: the invocations it awaited
Completed == inflight \ inflight'

\* C11 (as claimed): once a submission has succeeded, the capture it sent is
\* no longer offered for submission
C11_CaptureDiscarded ==
  [][(lastSubmit' = "ok" /\ Completed # {})
       => \A r \in Completed :
            ~(audioBlob' = relay[r].req.audio /\ ~isRecording' /\ ~isLoading')]_vars

\* C12 (as claimed): two invocations of POST that run at the same time have
\* different temporary file paths
Active(r) == relay[r].pc \in {"buffer", "fetch"}
C12_DistinctTempFiles ==
  \A r, q \in Req :
    (r # q /\ Active(r) /\ Active(q)) => relay[r].path # relay[q].path

\* C13: the page awaits at most one relay request at any time
C13_OneRequestInFlight == Cardinality(inflight) <= 1

C13_Witness ==
  /\ Cardinality(inflight) = 1 /\ isLoading
  /\ audioBlob # NoBlob /\ ~isRecording
  /\ \E k \in Rec : recorders[k].state = "pending"

\* C14: a submission plays the audio once when the relay's successful result
\* has an audioUrl and never otherwise, and in the successful cases the text
\* is set as response and shown
C14_PlaybackOnce ==
  [][/\ plays' <= 1
     /\ lastSubmit' # "ok" => plays' = 0
     /\ \A r \in Completed :
          lastSubmit' = "ok" =>
            /\ plays' = 1 <=> Truthy(Get(relay[r].body, "audioUrl"))
            /\ response' = Get(relay[r].body, "response")
            /\ Truthy(Get(relay[r].body, "response")) => ResponseShown']_vars

C14_Witness == lastSubmit = "ok" /\ plays = 1 /\ response = Text

\* C15: the relay forwards the audio it received as the one part `audio`, and
\* on success returns text_response as response and audio_url as audioUrl
C15_ForwardAndMap ==
  \A r \in Req :
    /\ relay[r].backendCalls > 0
         => /\ DOMAIN relay[r].sent = {"audio"}
            /\ relay[r].sent.audio = relay[r].req.audio
    /\ (Done(r) /\ relay[r].status = 200)
         => /\ Get(relay[r].body, "response") = Get(relay[r].data, "text_response")
            /\ Get(relay[r].body, "audioUrl") = Get(relay[r].data, "audio_url")

C15_Witness ==
  \E r \in Req :
    /\ Done(r) /\ relay[r].status = 200 /\ relay[r].sent.audio = ExtBlob
    /\ Get(relay[r].body, "response") = Text
    /\ Get(relay[r].body, "audioUrl") = Url

\* C16: when microphone access is denied the error is shown and nothing else
\* changes: isRecording, the recorder in use, the capture and the response
\* stay as they are, and the denied invocation has no stream
Denied(k) == recorders[k].state = "pending" /\ recorders'[k].state = "denied"
StoppedRecorders ==
  {k \in Rec : recorders[k].state \in {"stopping", "flushed", "inactive"}}
C17_StopWhileIdleNoOp ==
  [][(stopCalls' # stopCalls /\ ~(mediaRecorderRef # 0 /\ isRecording))
       => UNCHANGED <<isRecording, audioBlob, audioChunksRef, recorders,
                      mediaRecorderRef, response, error, isLoading>>]_vars

\* a state after a stopRecording call that stopped no recorder
C17_Witness ==
  /\ mediaRecorderRef # 0 /\ ~isRecording
  /\ stopCalls # Cardinality(StoppedRecorders) % 2

\* C18 (as claimed, its first half): no chunk of one recording ends up in the
\* capture of another
C18_OwnChunksOnly ==
  \A i \in 1..Len(audioBlob.chunks) : audioBlob.chunks[i] = audioBlob.by

\* C19: the page calls handleSubmit only when a capture exists and no
\* recording is active
C19_SubmitOnlyWhenReady ==
  [][/\ SentCall => (audioBlob # NoBlob /\ ~isRecording)
     /\ lastSubmit' # "noCapture"]_vars

C19_Witness ==
  lastSubmit = "sent" /\ inflight # {} /\ audioBlob # NoBlob /\ ~isRecording

====
